---- MODULE Spec2Model ----
(***************************************************************************)
(* Circuit proof orchestration of the reclaim extension.                   *)
(*                                                                         *)
(*   SpecDirect    the NoirCircuitAdapter that binds a Noir instance and a *)
(*                 BarretenbergBackend per circuit name                    *)
(*                 (src/src/utils/noir-adapter.test.js, lines 447-596)     *)
(*   SpecOperator  the Barretenberg operator with its lazily loaded        *)
(*                 circuit and engines (src/unnamed/part_002)              *)
(*   SpecZk        the NoirCircuitAdapter that binds an operator per       *)
(*                 algorithm name                                          *)
(*                 (src/src/utils/noir-adapter.test.js, lines 615-831)     *)
(*                                                                         *)
(* Every async function is cut at its awaits: the part up to the first     *)
(* await runs in the step that starts the call, and each continuation is   *)
(* a step of its own, so that other calls interleave exactly where the     *)
(* JavaScript event loop lets them.                                        *)
(***************************************************************************)
EXTENDS Integers, Sequences, FiniteSets, Bags, TLC

\* ------------------------------------------------------------------ bounds
MaxCalls == 2      \* adapter calls in flight at one time
MaxEngines == 2    \* engine pairs constructed in one run of the adapter
MaxOpCalls == 2    \* operator calls in flight at one time
MaxFetches == 2    \* artifact fetches in one run of the operator
MaxZkProofs == 1   \* generateProof calls of the operator-based adapter in flight
MaxIterations == 3 \* benchmark iterations in one run of the harness

\* --------------------------------------------------------------- constants
\* Names the table of initializeCircuit knows (the keys of fileNameMap), and
\* the names callers pass: one the table knows and one it does not.
Known == {"aes-128-ctr", "aes-256-ctr", "chacha20"}
Algs == {"aes-128-ctr", "test-circuit"}

\* Requests a caller can make: 1 is a request whose ciphertext matches its
\* key, nonce and counter, 2 is one whose ciphertext does not.
Requests == {1, 2}
Consistent(r) == r # 2

\* Requests a caller makes of the adapter's generateProof: 3 is a second
\* request whose ciphertext matches, so that two calls in flight can hold
\* different inputs and different witnesses.
ProofRequests == Requests \cup {3}

\* Values the libraries throw.  The adapter does not choose them.
LibErrors == {"E1", "E2"}
NotInitialized == "not initialized"
TypeError == "TypeError"

VARIABLES
    circuits,     \* adapter: circuit name -> Noir instance (0: no entry)
    backends,     \* adapter: circuit name -> backend instance (0: no entry)
    nextEngine,   \* adapter: number of backends constructed so far
    destroyed,    \* backends whose destroy() has been invoked
    cleanedUp,    \* history: no initializeCircuit(a) completed since the
                  \* last completed cleanup(a) (or ever)
    calls,        \* adapter calls in flight: position and local variables
    last,         \* the adapter call that settled most recently
    circuit,      \* operator: the parsed circuit (FALSE: unset)
    noir,         \* operator: the Noir instance (0: unset)
    backend,      \* operator: the UltraHonkBackend instance (0: unset)
    opEngines,    \* operator: number of engine pairs constructed so far
    fetches,      \* operator: number of fetcher.fetch invocations so far
    opCalls,      \* operator calls in flight: position and local variables
    opLast,       \* the operator call that settled most recently
    zkCircuits,   \* operator-based adapter: names with an entry in circuits
    zkBackends,   \* operator-based adapter: names with an entry in backends
    operators,    \* operator-based adapter: names with an entry in operators
    zkCalls,      \* operator-based adapter: calls in flight
    zkLast,       \* operator-based adapter: the call that settled most recently
    metrics,      \* benchmark: PerformanceMetrics.metrics
    report        \* benchmark: how the last generateReport ended

vars == <<circuits, backends, nextEngine, destroyed, cleanedUp, calls, last,
          circuit, noir, backend, opEngines, fetches, opCalls, opLast,
          zkCircuits, zkBackends, operators, zkCalls, zkLast, metrics, report>>
adapterVars == <<circuits, backends, nextEngine, destroyed, cleanedUp, calls, last>>
operatorVars == <<circuit, noir, backend, opEngines, fetches, opCalls, opLast>>
zkVars == <<zkCircuits, zkBackends, operators, zkCalls, zkLast>>
benchVars == <<metrics, report>>

\* ------------------------------------------------------- the proving engine
\* Witness of a request: noir.execute(inputs) of consistent inputs.
Witness(r) == r

\* backend.generateProof(witness): the proof bytes and the public inputs of
\* the witness (the ciphertext, nonce and counter are public, so they are
\* never empty).
ProofData(w) == [proof |-> w, publicInputs |-> <<w>>]

\* Proof bytes and public input lists a caller can hand to verifyProof:
\* 0 is a byte string no engine produced.
Proofs == {0} \cup {ProofData(Witness(r)).proof : r \in {q \in Requests : Consistent(q)}}
Signals == {<<>>} \cup {ProofData(Witness(r)).publicInputs : r \in {q \in Requests : Consistent(q)}}

\* backend.verifyProof({proof, publicInputs}) when it does not throw: the
\* engine accepts exactly the pairs it produces.
Accepts(p, s) == \E r \in ProofRequests :
    /\ Consistent(r)
    /\ ProofData(Witness(r)).proof = p
    /\ ProofData(Witness(r)).publicInputs = s

\* ------------------------------------------------------------ adapter calls
NoArtifact == [proof |-> 0, publicSignals |-> <<>>, circuitType |-> "",
               circuitName |-> ""]

\* A call in flight: the arguments and the locals of the async function.
\* execOk: noir.execute has resolved for this call.
NewCall(o, a) == [op |-> o, pc |-> "start", alg |-> a, req |-> 0,
                  proof |-> 0, signals |-> <<>>, noir |-> 0, backend |-> 0,
                  witness |-> 0, execOk |-> FALSE, names |-> {}]

\* A settled call: how its promise settled, and what it did on the way.
\*   wasBound, wasClean  the registry and its history when the call started
\*   built               engine pairs the call constructed
\*   executed, proved, verified, released
\*                       the call invoked noir.execute, backend.generateProof,
\*                       backend.verifyProof, backend.destroy
\*   failedAt            the statement whose exception ended the try block
NoCall == [op |-> "none", alg |-> "", req |-> 0, proof |-> 0, signals |-> <<>>,
           status |-> "none", bool |-> FALSE, artifact |-> NoArtifact,
           error |-> "", failedAt |-> "", wasBound |-> FALSE, wasClean |-> FALSE,
           built |-> 0, executed |-> FALSE, execOk |-> FALSE, proved |-> FALSE,
           verified |-> FALSE, released |-> FALSE]

Settled(k, st) == [NoCall EXCEPT !.op = k.op, !.alg = k.alg, !.req = k.req,
                      !.proof = k.proof, !.signals = k.signals, !.status = st,
                      !.execOk = k.execOk]

InFlight == BagToSet(calls)
Put(k) == calls (+) SetToBag({k})
Replace(k, k2) == (calls (-) SetToBag({k})) (+) SetToBag({k2})
Take(k) == calls (-) SetToBag({k})

\* listCircuits(): Array.from(this.circuits.keys())
listCircuits == {a \in Algs : circuits[a] # 0}

\* getCircuitInfo that also answers null for a circuit whose backend has had
\* destroy() invoked
getCircuitInfo_ready(a) ==
    IF circuits[a] = 0 \/ backends[a] \in destroyed
    THEN [found |-> FALSE, name |-> "", initialized |-> FALSE]
    ELSE [found |-> TRUE, name |-> a, initialized |-> TRUE]

\* getCircuitInfo(circuitName): null (found = FALSE here) or the info record
getCircuitInfo(a) ==
    IF circuits[a] = 0 THEN [found |-> FALSE, name |-> "", initialized |-> FALSE]
    ELSE [found |-> TRUE, name |-> a, initialized |-> TRUE]

\* A settled operator call.
NoOpCall == [op |-> "none", status |-> "none", bool |-> FALSE, witness |-> 0,
             proofData |-> [proof |-> 0, publicInputs |-> <<>>],
             error |-> "", failedAt |-> "", built |-> 0, fetched |-> 0]

\* A settled call of the operator-based adapter.
NoZkCall == [op |-> "none", alg |-> "", status |-> "none", error |-> "",
             failedAt |-> ""]

Init ==
    /\ circuits = [a \in Algs |-> 0]
    /\ backends = [a \in Algs |-> 0]
    /\ nextEngine = 0
    /\ destroyed = {}
    /\ cleanedUp = [a \in Algs |-> TRUE]
    /\ calls = EmptyBag
    /\ last = NoCall
    /\ circuit = FALSE
    /\ noir = 0
    /\ backend = 0
    /\ opEngines = 0
    /\ fetches = 0
    /\ opCalls = EmptyBag
    /\ opLast = NoOpCall
    /\ zkCircuits = {}
    /\ zkBackends = {}
    /\ operators = {}
    /\ zkCalls = EmptyBag
    /\ zkLast = NoZkCall
    /\ metrics = [proofGeneration |-> << >>, memoryUsage |-> << >>,
                  errors |-> << >>]
    /\ report = "none"

\* ------------------------------------------------- NoirCircuitAdapter steps
\* initializeCircuit that returns true for a name that has an entry, without
\* constructing anything
initializeCircuit_keep(a, o, e) ==
    LET k == NewCall("init", a)
        r == [Settled(k, "rejected") EXCEPT !.wasBound = circuits[a] # 0,
                                            !.wasClean = cleanedUp[a]]
    IN  /\ IF circuits[a] # 0
           THEN /\ last' = [r EXCEPT !.status = "resolved", !.bool = TRUE]
                /\ cleanedUp' = [cleanedUp EXCEPT ![a] = FALSE]
                /\ UNCHANGED <<circuits, backends, nextEngine>>
           ELSE IF o = "throws"
           THEN /\ last' = [r EXCEPT !.error = e, !.failedAt = "construct"]
                /\ UNCHANGED <<circuits, backends, nextEngine, cleanedUp>>
           ELSE /\ nextEngine < MaxEngines
                /\ nextEngine' = nextEngine + 1
                /\ circuits' = [circuits EXCEPT ![a] = nextEngine + 1]
                /\ backends' = [backends EXCEPT ![a] = nextEngine + 1]
                /\ cleanedUp' = [cleanedUp EXCEPT ![a] = FALSE]
                /\ last' = [r EXCEPT !.status = "resolved", !.bool = TRUE,
                                     !.built = 1]
        /\ UNCHANGED <<destroyed, calls, operatorVars, zkVars, benchVars>>

\* initializeCircuit whose catch throws an error of its own in place of the
\* one it caught
initializeCircuit_wrap(a, o, e) ==
    LET k == NewCall("init", a)
        r == [Settled(k, "rejected") EXCEPT !.wasBound = circuits[a] # 0,
                                            !.wasClean = cleanedUp[a]]
    IN  /\ IF o = "throws"
           THEN /\ last' = [r EXCEPT !.error = "initialization failed",
                                     !.failedAt = "construct"]
                /\ UNCHANGED <<circuits, backends, nextEngine, cleanedUp>>
           ELSE /\ nextEngine < MaxEngines
                /\ nextEngine' = nextEngine + 1
                /\ circuits' = [circuits EXCEPT ![a] = nextEngine + 1]
                /\ backends' = [backends EXCEPT ![a] = nextEngine + 1]
                /\ cleanedUp' = [cleanedUp EXCEPT ![a] = FALSE]
                /\ last' = [r EXCEPT !.status = "resolved", !.bool = TRUE,
                                     !.built = 1]
        /\ UNCHANGED <<destroyed, calls, operatorVars, zkVars, benchVars>>

\* initializeCircuit(circuitName, circuitBytecode): no await, so the whole
\* body is one step.  The backend constructor either throws (nothing is
\* stored, the error is rethrown) or the pair is constructed and stored over
\* whatever was there.
initializeCircuitBody(a, o, e) ==
    LET k == NewCall("init", a)
        r == [Settled(k, "rejected") EXCEPT !.wasBound = circuits[a] # 0,
                                            !.wasClean = cleanedUp[a]]
    IN  /\ IF o = "throws"
           THEN /\ last' = [r EXCEPT !.error = e, !.failedAt = "construct"]
                /\ UNCHANGED <<circuits, backends, nextEngine, cleanedUp>>
           ELSE /\ nextEngine < MaxEngines
                /\ nextEngine' = nextEngine + 1
                /\ circuits' = [circuits EXCEPT ![a] = nextEngine + 1]
                /\ backends' = [backends EXCEPT ![a] = nextEngine + 1]
                /\ cleanedUp' = [cleanedUp EXCEPT ![a] = FALSE]
                /\ last' = [r EXCEPT !.status = "resolved", !.bool = TRUE,
                                     !.built = 1]
        /\ UNCHANGED <<destroyed, calls>>

\* initializeCircuit of this adapter; the other components do not move
initializeCircuit(a, o, e) ==
    initializeCircuitBody(a, o, e) /\ UNCHANGED <<operatorVars, zkVars, benchVars>>

\* generateProof up to `await noir.execute(inputs)`
generateProofStartBody(a, r) ==
    LET k == [NewCall("gen", a) EXCEPT !.req = r]
    IN  /\ IF circuits[a] = 0
           THEN /\ last' = [Settled(k, "rejected") EXCEPT
                               !.error = NotInitialized, !.failedAt = "check",
                               !.wasClean = cleanedUp[a]]
                /\ UNCHANGED calls
           ELSE /\ BagCardinality(calls) < MaxCalls
                /\ calls' = Put([k EXCEPT !.noir = circuits[a], !.pc = "execute"])
                /\ UNCHANGED last
        /\ UNCHANGED <<circuits, backends, nextEngine, destroyed, cleanedUp>>

\* generateProof of this adapter up to its first await
generateProofStart(a, r) ==
    generateProofStartBody(a, r) /\ UNCHANGED <<operatorVars, zkVars, benchVars>>

\* generateProofExecuted with the rejection of noir.execute swallowed: the
\* call goes on to the proving engine with whatever witness it has.
generateProofExecuted_swallow(k, e) ==
    LET b == backends[k.alg]
        ok == [k EXCEPT !.execOk = Consistent(k.req), !.witness = Witness(k.req)]
    IN  /\ k \in InFlight /\ k.op = "gen" /\ k.pc = "execute"
        /\ IF b = 0
           THEN /\ calls' = Take(k)
                /\ last' = [Settled(ok, "rejected") EXCEPT !.error = TypeError,
                               !.failedAt = "backend", !.wasBound = TRUE,
                               !.executed = TRUE]
           ELSE /\ calls' = Replace(k, [ok EXCEPT !.backend = b, !.pc = "prove"])
                /\ UNCHANGED last
        /\ UNCHANGED <<circuits, backends, nextEngine, destroyed, cleanedUp, operatorVars, zkVars, benchVars>>

\* generateProofExecuted that, finding no backend for the circuit, waits for
\* one instead of failing: the call stays pending
generateProofExecuted_wait(k, e) ==
    LET b == backends[k.alg]
        ok == [k EXCEPT !.execOk = TRUE, !.witness = Witness(k.req)]
    IN  /\ k \in InFlight /\ k.op = "gen" /\ k.pc = "execute"
        /\ IF ~Consistent(k.req)
           THEN /\ calls' = Take(k)
                /\ last' = [Settled(k, "rejected") EXCEPT !.error = e,
                               !.failedAt = "execute", !.wasBound = TRUE,
                               !.executed = TRUE]
           ELSE IF b = 0
           THEN /\ calls' = Replace(k, [ok EXCEPT !.pc = "wait"])
                /\ UNCHANGED last
           ELSE /\ calls' = Replace(k, [ok EXCEPT !.backend = b, !.pc = "prove"])
                /\ UNCHANGED last
        /\ UNCHANGED <<circuits, backends, nextEngine, destroyed, cleanedUp, operatorVars, zkVars, benchVars>>

\* generateProof from the settling of noir.execute up to
\* `await backend.generateProof(witness)`
generateProofExecuted(k, e) ==
    LET b == backends[k.alg]
        ok == [k EXCEPT !.execOk = TRUE, !.witness = Witness(k.req)]
    IN  /\ k \in InFlight /\ k.op = "gen" /\ k.pc = "execute"
        /\ IF ~Consistent(k.req)
           THEN /\ calls' = Take(k)
                /\ last' = [Settled(k, "rejected") EXCEPT !.error = e,
                               !.failedAt = "execute", !.wasBound = TRUE,
                               !.executed = TRUE]
           ELSE IF b = 0
           THEN /\ calls' = Take(k)
                /\ last' = [Settled(ok, "rejected") EXCEPT !.error = TypeError,
                               !.failedAt = "backend", !.wasBound = TRUE,
                               !.executed = TRUE]
           ELSE /\ calls' = Replace(k, [ok EXCEPT !.backend = b, !.pc = "prove"])
                /\ UNCHANGED last
        /\ UNCHANGED <<circuits, backends, nextEngine, destroyed, cleanedUp, operatorVars, zkVars, benchVars>>

\* The object generateProof returns (Date.now() is left out).  Array.from
\* copies the proof bytes; the public inputs of the engine are not returned.
Artifact(a, w) == [proof |-> ProofData(w).proof, publicSignals |-> <<>>,
                   circuitType |-> "noir", circuitName |-> a]

\* generateProofProved that drops the binding of the circuit when the
\* proving engine has thrown
generateProofProved_evict(k, o, e) ==
    LET r == [Settled(k, "rejected") EXCEPT !.wasBound = TRUE,
                 !.executed = TRUE, !.proved = TRUE]
    IN  /\ k \in InFlight /\ k.op = "gen" /\ k.pc = "prove"
        /\ calls' = Take(k)
        /\ IF o = "throws"
           THEN /\ last' = [r EXCEPT !.error = e, !.failedAt = "prove"]
                /\ circuits' = [circuits EXCEPT ![k.alg] = 0]
                /\ backends' = [backends EXCEPT ![k.alg] = 0]
           ELSE /\ last' = [r EXCEPT !.status = "resolved",
                                     !.artifact = Artifact(k.alg, k.witness)]
                /\ UNCHANGED <<circuits, backends>>
        /\ UNCHANGED <<nextEngine, destroyed, cleanedUp, operatorVars, zkVars, benchVars>>

\* generateProofProved that builds the artifact from a witness kept in one
\* place for the whole adapter: the witness of any generateProof on the same
\* circuit that is waiting for the proving engine
generateProofProved_shared(k, o, e) ==
    LET r == [Settled(k, "rejected") EXCEPT !.wasBound = TRUE,
                 !.executed = TRUE, !.proved = TRUE]
    IN  /\ k \in InFlight /\ k.op = "gen" /\ k.pc = "prove"
        /\ calls' = Take(k)
        /\ IF o = "throws"
           THEN last' = [r EXCEPT !.error = e, !.failedAt = "prove"]
           ELSE \E k2 \in InFlight :
                   /\ k2.op = "gen" /\ k2.pc = "prove" /\ k2.alg = k.alg
                   /\ last' = [r EXCEPT !.status = "resolved",
                                        !.artifact = Artifact(k.alg, k2.witness)]
        /\ UNCHANGED <<circuits, backends, nextEngine, destroyed, cleanedUp, operatorVars, zkVars, benchVars>>

\* generateProof from the settling of backend.generateProof to its return
generateProofProved(k, o, e) ==
    LET r == [Settled(k, "rejected") EXCEPT !.wasBound = TRUE,
                 !.executed = TRUE, !.proved = TRUE]
    IN  /\ k \in InFlight /\ k.op = "gen" /\ k.pc = "prove"
        /\ calls' = Take(k)
        /\ last' = IF o = "throws"
                   THEN [r EXCEPT !.error = e, !.failedAt = "prove"]
                   ELSE [r EXCEPT !.status = "resolved",
                                  !.artifact = Artifact(k.alg, k.witness)]
        /\ UNCHANGED <<circuits, backends, nextEngine, destroyed, cleanedUp, operatorVars, zkVars, benchVars>>

\* verifyProof up to `await backend.verifyProof({ proof, publicInputs })`;
\* the throw for a missing backend is caught and turned into false
verifyProofStart(a, p, s) ==
    LET k == [NewCall("verify", a) EXCEPT !.proof = p, !.signals = s]
    IN  /\ IF backends[a] = 0
           THEN /\ last' = [Settled(k, "resolved") EXCEPT !.bool = FALSE,
                               !.failedAt = "check"]
                /\ UNCHANGED calls
           ELSE /\ BagCardinality(calls) < MaxCalls
                /\ calls' = Put([k EXCEPT !.backend = backends[a], !.pc = "verify"])
                /\ UNCHANGED last
        /\ UNCHANGED <<circuits, backends, nextEngine, destroyed, cleanedUp, operatorVars, zkVars, benchVars>>

\* verifyProofVerified whose catch rethrows instead of returning false
verifyProofVerified_rethrow(k, o) ==
    LET r == [Settled(k, "resolved") EXCEPT !.wasBound = TRUE, !.verified = TRUE]
    IN  /\ k \in InFlight /\ k.op = "verify" /\ k.pc = "verify"
        /\ calls' = Take(k)
        /\ last' = IF o = "throws"
                   THEN [r EXCEPT !.status = "rejected", !.failedAt = "verify"]
                   ELSE [r EXCEPT !.bool = Accepts(k.proof, k.signals)]
        /\ UNCHANGED <<circuits, backends, nextEngine, destroyed, cleanedUp, operatorVars, zkVars, benchVars>>

\* verifyProofVerified that returns true whenever the backend call did not
\* throw, whatever the backend answered
verifyProofVerified_ignoreAnswer(k, o) ==
    LET r == [Settled(k, "resolved") EXCEPT !.wasBound = TRUE, !.verified = TRUE]
    IN  /\ k \in InFlight /\ k.op = "verify" /\ k.pc = "verify"
        /\ calls' = Take(k)
        /\ last' = IF o = "throws"
                   THEN [r EXCEPT !.bool = FALSE, !.failedAt = "verify"]
                   ELSE [r EXCEPT !.bool = TRUE]
        /\ UNCHANGED <<circuits, backends, nextEngine, destroyed, cleanedUp, operatorVars, zkVars, benchVars>>

\* verifyProof from the settling of backend.verifyProof to its return
verifyProofVerified(k, o) ==
    LET r == [Settled(k, "resolved") EXCEPT !.wasBound = TRUE, !.verified = TRUE]
    IN  /\ k \in InFlight /\ k.op = "verify" /\ k.pc = "verify"
        /\ calls' = Take(k)
        /\ last' = IF o = "throws"
                   THEN [r EXCEPT !.bool = FALSE, !.failedAt = "verify"]
                   ELSE [r EXCEPT !.bool = Accepts(k.proof, k.signals)]
        /\ UNCHANGED <<circuits, backends, nextEngine, destroyed, cleanedUp, operatorVars, zkVars, benchVars>>

\* cleanup up to `await backend.destroy()`, or to its end when there is no
\* backend to destroy
cleanupStartBody(a) ==
    LET k == NewCall("cleanup", a)
    IN  /\ IF backends[a] # 0
           THEN /\ BagCardinality(calls) < MaxCalls
                /\ destroyed' = destroyed \cup {backends[a]}
                /\ calls' = Put([k EXCEPT !.backend = backends[a], !.pc = "destroy"])
                /\ UNCHANGED <<circuits, backends, cleanedUp, last>>
           ELSE /\ circuits' = [circuits EXCEPT ![a] = 0]
                /\ backends' = [backends EXCEPT ![a] = 0]
                /\ cleanedUp' = [cleanedUp EXCEPT ![a] = TRUE]
                /\ last' = [Settled(k, "resolved") EXCEPT
                               !.wasBound = circuits[a] # 0,
                               !.wasClean = cleanedUp[a]]
                /\ UNCHANGED <<destroyed, calls>>
        /\ UNCHANGED nextEngine

\* cleanup of this adapter up to its first await
cleanupStart(a) ==
    cleanupStartBody(a) /\ UNCHANGED <<operatorVars, zkVars, benchVars>>

\* cleanup from the settling of backend.destroy() to its end: the two
\* deletes run only when destroy did not throw; the catch swallows the error
cleanupDestroyed(k, o) ==
    LET r == [Settled(k, "resolved") EXCEPT !.wasBound = TRUE, !.released = TRUE]
    IN  /\ k \in InFlight /\ k.op = "cleanup" /\ k.pc = "destroy"
        /\ calls' = Take(k)
        /\ IF o = "throws"
           THEN /\ last' = [r EXCEPT !.failedAt = "destroy"]
                /\ UNCHANGED <<circuits, backends>>
           ELSE /\ circuits' = [circuits EXCEPT ![k.alg] = 0]
                /\ backends' = [backends EXCEPT ![k.alg] = 0]
                /\ last' = r
        /\ cleanedUp' = [cleanedUp EXCEPT ![k.alg] = TRUE]
        /\ UNCHANGED <<nextEngine, destroyed, operatorVars, zkVars, benchVars>>

\* cleanupAll: `this.cleanup(n)` called from the loop of the call k, up to
\* the first await of cleanup or, with no backend to destroy, to its end; cs
\* are the other calls in flight.  The loop then waits for that cleanup.
cleanupAllCall(k, n, cs) ==
    LET k2 == [k EXCEPT !.alg = n, !.backend = backends[n], !.names = k.names \ {n}]
    IN  IF backends[n] # 0
        THEN /\ destroyed' = destroyed \cup {backends[n]}
             /\ calls' = cs (+) SetToBag({[k2 EXCEPT !.pc = "destroy"]})
             /\ UNCHANGED <<circuits, backends, cleanedUp>>
        ELSE /\ circuits' = [circuits EXCEPT ![n] = 0]
             /\ backends' = [backends EXCEPT ![n] = 0]
             /\ cleanedUp' = [cleanedUp EXCEPT ![n] = TRUE]
             /\ calls' = cs (+) SetToBag({[k2 EXCEPT !.pc = "next"]})
             /\ UNCHANGED destroyed

\* cleanupAll up to its first await: the names are listed once, and the
\* cleanup of the first one is called.  The list is in the insertion order
\* of the map, which the maps of this model do not keep: any order is taken.
cleanupAllStartBody ==
    LET k == [NewCall("cleanupAll", "") EXCEPT !.names = listCircuits]
    IN  /\ IF listCircuits = {}
           THEN /\ last' = Settled(k, "resolved")
                /\ UNCHANGED <<circuits, backends, destroyed, cleanedUp, calls>>
           ELSE /\ BagCardinality(calls) < MaxCalls
                /\ \E n \in listCircuits : cleanupAllCall(k, n, calls)
                /\ UNCHANGED last
        /\ UNCHANGED nextEngine

\* cleanupAll of this adapter up to its first await
cleanupAllStart ==
    cleanupAllStartBody /\ UNCHANGED <<operatorVars, zkVars, benchVars>>

\* cleanupAllDestroyed of a cleanup without its catch: when destroy() throws,
\* the loop of cleanupAll ends and cleanupAll rejects
cleanupAllDestroyed_abort(k, o) ==
    /\ k \in InFlight /\ k.op = "cleanupAll" /\ k.pc = "destroy"
    /\ IF o = "throws"
       THEN /\ calls' = Take(k)
            /\ last' = [Settled(k, "rejected") EXCEPT !.failedAt = "destroy",
                                                      !.released = TRUE]
            /\ UNCHANGED <<circuits, backends>>
       ELSE /\ calls' = Replace(k, [k EXCEPT !.pc = "next"])
            /\ circuits' = [circuits EXCEPT ![k.alg] = 0]
            /\ backends' = [backends EXCEPT ![k.alg] = 0]
            /\ UNCHANGED last
    /\ cleanedUp' = [cleanedUp EXCEPT ![k.alg] = TRUE]
    /\ UNCHANGED <<nextEngine, destroyed, operatorVars, zkVars, benchVars>>

\* The cleanup that cleanupAll awaits, from the settling of backend.destroy()
\* to its end (as cleanupDestroyed)
cleanupAllDestroyed(k, o) ==
    /\ k \in InFlight /\ k.op = "cleanupAll" /\ k.pc = "destroy"
    /\ calls' = Replace(k, [k EXCEPT !.pc = "next"])
    /\ IF o = "throws"
       THEN UNCHANGED <<circuits, backends>>
       ELSE /\ circuits' = [circuits EXCEPT ![k.alg] = 0]
            /\ backends' = [backends EXCEPT ![k.alg] = 0]
    /\ cleanedUp' = [cleanedUp EXCEPT ![k.alg] = TRUE]
    /\ UNCHANGED <<nextEngine, destroyed, last, operatorVars, zkVars, benchVars>>

\* cleanupAll from the settling of the cleanup it awaited: the cleanup of
\* the next listed name is called, or the loop is over and cleanupAll returns
cleanupAllNext(k) ==
    /\ k \in InFlight /\ k.op = "cleanupAll" /\ k.pc = "next"
    /\ IF k.names = {}
       THEN /\ calls' = Take(k)
            /\ last' = [Settled(k, "resolved") EXCEPT !.alg = ""]
            /\ UNCHANGED <<circuits, backends, destroyed, cleanedUp>>
       ELSE /\ \E n \in k.names : cleanupAllCall(k, n, Take(k))
            /\ UNCHANGED last
    /\ UNCHANGED <<nextEngine, operatorVars, zkVars, benchVars>>

Outcomes == {"ok", "throws"}

NextDirect ==
    \/ \E a \in Algs, o \in Outcomes, e \in LibErrors : initializeCircuit(a, o, e)
    \/ \E a \in Algs, r \in ProofRequests : generateProofStart(a, r)
    \/ \E k \in InFlight, e \in LibErrors : generateProofExecuted(k, e)
    \/ \E k \in InFlight, o \in Outcomes, e \in LibErrors : generateProofProved(k, o, e)
    \/ \E a \in Algs, p \in Proofs, s \in Signals : verifyProofStart(a, p, s)
    \/ \E k \in InFlight, o \in Outcomes : verifyProofVerified(k, o)
    \/ \E a \in Algs : cleanupStart(a)
    \/ \E k \in InFlight, o \in Outcomes : cleanupDestroyed(k, o)
    \/ cleanupAllStart
    \/ \E k \in InFlight, o \in Outcomes : cleanupAllDestroyed(k, o)
    \/ \E k \in InFlight : cleanupAllNext(k)

SpecDirect == Init /\ [][NextDirect]_vars

TypeOKDirect ==
    /\ circuits \in [Algs -> 0..MaxEngines]
    /\ backends \in [Algs -> 0..MaxEngines]
    /\ nextEngine \in 0..MaxEngines
    /\ destroyed \subseteq 1..MaxEngines
    /\ BagCardinality(calls) <= MaxCalls
    /\ last.status \in {"none", "resolved", "rejected"}


\* The adapter under generateProof, initializeCircuit and cleanup calls, with
\* every backend call that a generateProof awaits settling: a suspended
\* generateProof is resumed.  GenCalls are the records of the generateProof
\* calls that can be in flight.
GenCalls ==
    {[NewCall("gen", a) EXCEPT !.req = r, !.noir = n, !.pc = "execute"] :
        a \in Algs, r \in ProofRequests, n \in 1..MaxEngines}
    \cup
    {[NewCall("gen", a) EXCEPT !.req = r, !.noir = n, !.backend = b,
                               !.witness = Witness(r), !.execOk = TRUE,
                               !.pc = "prove"] :
        a \in Algs, r \in {q \in ProofRequests : Consistent(q)},
        n \in 1..MaxEngines, b \in 1..MaxEngines}

NextSettle ==
    \/ \E a \in Algs, o \in Outcomes, e \in LibErrors : initializeCircuit(a, o, e)
    \/ \E a \in Algs, r \in ProofRequests : generateProofStart(a, r)
    \/ \E k \in InFlight, e \in LibErrors : generateProofExecuted(k, e)
    \/ \E k \in InFlight, o \in Outcomes, e \in LibErrors : generateProofProved(k, o, e)
    \/ \E a \in Algs : cleanupStart(a)
    \/ \E k \in InFlight, o \in Outcomes : cleanupDestroyed(k, o)

SpecSettle ==
    /\ Init /\ [][NextSettle]_vars
    /\ \A k \in GenCalls :
          /\ WF_vars(\E e \in LibErrors : generateProofExecuted(k, e))
          /\ WF_vars(\E o \in Outcomes, e \in LibErrors : generateProofProved(k, o, e))


\* The adapter under verifyProof calls whose proof or public inputs may be
\* null.  null is no byte string and no list: it is written NullProof, and
\* <<NullProof>> where a list is expected.  The backend, handed null, throws
\* or answers false (Accepts is false of it).
NullProof == -1
NullInputs == <<NullProof>>

NextVerify ==
    \/ \E a \in Algs, o \in Outcomes, e \in LibErrors : initializeCircuit(a, o, e)
    \/ \E a \in Algs, p \in Proofs \cup {NullProof}, s \in Signals \cup {NullInputs} :
          verifyProofStart(a, p, s)
    \/ \E k \in InFlight, o \in Outcomes : verifyProofVerified(k, o)
    \/ \E a \in Algs : cleanupStart(a)
    \/ \E k \in InFlight, o \in Outcomes : cleanupDestroyed(k, o)

SpecVerify == Init /\ [][NextVerify]_vars


\* --------------------------------------------- makeBarretenbergZKOperator
\* One operator: the closure variables circuit, noir and backend of one
\* algorithm.  generateWitness, ultrahonkProve and ultrahonkVerify all start
\* with `await initializeBackend(logger)`.
NewOpCall(o) == [op |-> o, pc |-> "start", req |-> 0, witness |-> 0,
                 proof |-> 0, signals |-> <<>>, noir |-> 0, backend |-> 0,
                 built |-> 0, fetched |-> 0]

OpSettled(k, st) == [NoOpCall EXCEPT !.op = k.op, !.status = st,
                        !.built = k.built, !.fetched = k.fetched]

OpInFlight == BagToSet(opCalls)
OpPut(k) == opCalls (+) SetToBag({k})
OpReplace(k, k2) == (opCalls (-) SetToBag({k})) (+) SetToBag({k2})
OpTake(k) == opCalls (-) SetToBag({k})

\* initializeBackend up to its first await, called by an operation that has
\* just started.  With both engines set it returns them at once; otherwise it
\* calls loadCircuit, which returns the cached circuit or starts a fetch.
initializeBackend(k) ==
    /\ BagCardinality(opCalls) < MaxOpCalls
    /\ IF noir # 0 /\ backend # 0
       THEN /\ opCalls' = OpPut([k EXCEPT !.noir = noir, !.backend = backend,
                                          !.pc = "inited"])
            /\ UNCHANGED fetches
       ELSE IF circuit
       THEN /\ opCalls' = OpPut([k EXCEPT !.pc = "loaded"])
            /\ UNCHANGED fetches
       ELSE /\ fetches < MaxFetches
            /\ fetches' = fetches + 1
            /\ opCalls' = OpPut([k EXCEPT !.pc = "fetch", !.fetched = 1])
    /\ UNCHANGED <<circuit, noir, backend, opEngines, opLast, adapterVars, zkVars, benchVars>>

generateWitness(r) == initializeBackend([NewOpCall("generateWitness") EXCEPT !.req = r])

ultrahonkProve(w) == initializeBackend([NewOpCall("ultrahonkProve") EXCEPT !.witness = w])

ultrahonkVerify(s, p) ==
    initializeBackend([NewOpCall("ultrahonkVerify") EXCEPT !.signals = s, !.proof = p])

\* loadCircuit that stores what it has when the fetch or the parse failed
loadCircuit_cacheFailure(k, o, e) ==
    /\ k \in OpInFlight /\ k.pc = "fetch"
    /\ IF o = "throws"
       THEN /\ opCalls' = OpTake(k)
            /\ opLast' = [OpSettled(k, "rejected") EXCEPT !.error = e,
                             !.failedAt = "fetch"]
            /\ circuit' = TRUE
       ELSE /\ circuit' = TRUE
            /\ opCalls' = OpReplace(k, [k EXCEPT !.pc = "loaded"])
            /\ UNCHANGED opLast
    /\ UNCHANGED <<noir, backend, opEngines, fetches, adapterVars, zkVars, benchVars>>

\* loadCircuit from the settling of fetcher.fetch to its return: the circuit
\* is stored only when the fetch and the parse succeed; a failure rejects
\* the operation that was waiting for the backend.
loadCircuit(k, o, e) ==
    /\ k \in OpInFlight /\ k.pc = "fetch"
    /\ IF o = "throws"
       THEN /\ opCalls' = OpTake(k)
            /\ opLast' = [OpSettled(k, "rejected") EXCEPT !.error = e,
                             !.failedAt = "fetch"]
            /\ UNCHANGED circuit
       ELSE /\ circuit' = TRUE
            /\ opCalls' = OpReplace(k, [k EXCEPT !.pc = "loaded"])
            /\ UNCHANGED opLast
    /\ UNCHANGED <<noir, backend, opEngines, fetches, adapterVars, zkVars, benchVars>>

\* constructEngines that returns the closure variables as they are, without
\* constructing the engines
constructEngines_unset(k) ==
    /\ k \in OpInFlight /\ k.pc = "loaded"
    /\ opCalls' = OpReplace(k, [k EXCEPT !.noir = noir, !.backend = backend,
                                         !.pc = "inited"])
    /\ UNCHANGED <<circuit, noir, backend, opEngines, fetches, opLast, adapterVars, zkVars, benchVars>>

\* initializeBackend from the settling of loadCircuit to its return: both
\* engines are constructed and stored, whatever the variables hold by now.
constructEngines(k) ==
    /\ k \in OpInFlight /\ k.pc = "loaded"
    /\ opEngines' = opEngines + 1
    /\ noir' = opEngines + 1
    /\ backend' = opEngines + 1
    /\ opCalls' = OpReplace(k, [k EXCEPT !.noir = opEngines + 1,
                                         !.backend = opEngines + 1,
                                         !.built = 1, !.pc = "inited"])
    /\ UNCHANGED <<circuit, fetches, opLast, adapterVars, zkVars, benchVars>>

\* The operation from the settling of initializeBackend to its next await:
\* noir.execute, backend.generateProof or backend.verifyProof is invoked on
\* the instance initializeBackend returned.
invokeEngine(k) ==
    /\ k \in OpInFlight /\ k.pc = "inited"
    /\ opCalls' = OpReplace(k, [k EXCEPT !.pc =
           CASE k.op = "generateWitness" -> "execute"
             [] k.op = "ultrahonkProve" -> "prove"
             [] OTHER -> "verify"])
    /\ UNCHANGED <<circuit, noir, backend, opEngines, fetches, opLast, adapterVars, zkVars, benchVars>>

\* generateWitness from the settling of noirInstance.execute to its return
witnessGenerated(k, e) ==
    /\ k \in OpInFlight /\ k.pc = "execute"
    /\ opCalls' = OpTake(k)
    /\ opLast' = IF Consistent(k.req)
                 THEN [OpSettled(k, "resolved") EXCEPT !.witness = Witness(k.req)]
                 ELSE [OpSettled(k, "rejected") EXCEPT !.error = e,
                          !.failedAt = "execute"]
    /\ UNCHANGED <<circuit, noir, backend, opEngines, fetches, adapterVars, zkVars, benchVars>>

\* ultrahonkProve from the settling of backendInstance.generateProof to its
\* return: the proof and the public inputs of the engine
proofGenerated(k, o, e) ==
    /\ k \in OpInFlight /\ k.pc = "prove"
    /\ opCalls' = OpTake(k)
    /\ opLast' = IF o = "throws" \/ k.witness = 0
                 THEN [OpSettled(k, "rejected") EXCEPT !.error = e,
                          !.failedAt = "prove"]
                 ELSE [OpSettled(k, "resolved") EXCEPT
                          !.proofData = ProofData(k.witness)]
    /\ UNCHANGED <<circuit, noir, backend, opEngines, fetches, adapterVars, zkVars, benchVars>>

\* proofVerified whose catch rethrows the exception of the engine
proofVerified_rethrow(k, o) ==
    /\ k \in OpInFlight /\ k.pc = "verify"
    /\ opCalls' = OpTake(k)
    /\ opLast' = IF o = "throws"
                 THEN [OpSettled(k, "rejected") EXCEPT !.failedAt = "verify"]
                 ELSE [OpSettled(k, "resolved") EXCEPT
                          !.bool = Accepts(k.proof, k.signals)]
    /\ UNCHANGED <<circuit, noir, backend, opEngines, fetches, adapterVars, zkVars, benchVars>>

\* ultrahonkVerify from the settling of backendInstance.verifyProof to its
\* return: the catch turns an exception into false
proofVerified(k, o) ==
    /\ k \in OpInFlight /\ k.pc = "verify"
    /\ opCalls' = OpTake(k)
    /\ opLast' = IF o = "throws"
                 THEN [OpSettled(k, "resolved") EXCEPT !.bool = FALSE,
                          !.failedAt = "verify"]
                 ELSE [OpSettled(k, "resolved") EXCEPT
                          !.bool = Accepts(k.proof, k.signals)]
    /\ UNCHANGED <<circuit, noir, backend, opEngines, fetches, adapterVars, zkVars, benchVars>>

\* Witnesses a caller can hand to ultrahonkProve: 0 is a malformed trace.
Witnesses == {0} \cup {Witness(r) : r \in {q \in Requests : Consistent(q)}}

NextOperator ==
    \/ \E r \in Requests : generateWitness(r)
    \/ \E w \in Witnesses : ultrahonkProve(w)
    \/ \E s \in Signals, p \in Proofs : ultrahonkVerify(s, p)
    \/ \E k \in OpInFlight, o \in Outcomes, e \in LibErrors : loadCircuit(k, o, e)
    \/ \E k \in OpInFlight : constructEngines(k)
    \/ \E k \in OpInFlight : invokeEngine(k)
    \/ \E k \in OpInFlight, e \in LibErrors : witnessGenerated(k, e)
    \/ \E k \in OpInFlight, o \in Outcomes, e \in LibErrors : proofGenerated(k, o, e)
    \/ \E k \in OpInFlight, o \in Outcomes : proofVerified(k, o)

SpecOperator == Init /\ [][NextOperator]_vars

TypeOKOperator ==
    /\ circuit \in BOOLEAN
    /\ noir \in 0..MaxOpCalls
    /\ backend = noir
    /\ opEngines \in 0..MaxOpCalls
    /\ fetches \in 0..MaxFetches
    /\ BagCardinality(opCalls) <= MaxOpCalls


\* ------------------------------------ NoirCircuitAdapter over ZK operators
\* Names callers pass to this adapter.
ZkNames == Known \cup Algs

UnknownAlgorithm == "Unknown circuit algorithm"
FileNotFound == "Circuit file not found"

\* fileNameMap[circuitName]: "" stands for undefined
fileNameMap(a) ==
    CASE a = "aes-128-ctr" -> "aes_128_ctr.json"
      [] a = "aes-256-ctr" -> "aes_256_ctr.json"
      [] a = "chacha20" -> "chacha20.json"
      [] OTHER -> ""

\* What the file system answers to one initializeCircuit: the compiled
\* circuit is there and parses, is missing, or cannot be read or parsed.
FileOutcomes == {"ok", "missing", "unreadable"}

\* A call in flight: the arguments and the locals of the async function.
NoZkInputs == [key |-> << >>, counter |-> << >>, count |-> [neg |-> FALSE, hi |-> 0, lo |-> 0],
               nonce |-> << >>, expected_ciphertext |-> << >>]
NoPackageInput == [algorithm |-> "", privateInput |-> [key |-> << >>],
                   publicInput |-> [ciphertext |-> << >>, iv |-> << >>,
                                    offsetBytes |-> 0]]
ZkNewCall(o, a) == [op |-> o, alg |-> a, names |-> {}, inputs |-> NoZkInputs,
                    nonce |-> << >>,
                    counterValue |-> [neg |-> FALSE, hi |-> 0, lo |-> 0],
                    pkg |-> NoPackageInput]

ZkSettled(o, a, st) == [NoZkCall EXCEPT !.op = o, !.alg = a, !.status = st]

\* listCircuits(): Array.from(this.operators.keys())
zkListCircuits == operators

\* getCircuitInfo(circuitName) of this adapter
zkGetCircuitInfo(a) ==
    IF a \notin operators THEN [found |-> FALSE, name |-> "", initialized |-> FALSE]
    ELSE [found |-> TRUE, name |-> a, initialized |-> TRUE]

\* zkInitializeCircuit that stores the entry of circuits before it reads the
\* compiled circuit
zkInitializeCircuit_storeFirst(a, f, e) ==
    /\ IF fileNameMap(a) = ""
       THEN /\ zkLast' = [ZkSettled("init", a, "rejected") EXCEPT
                             !.error = UnknownAlgorithm, !.failedAt = "name"]
            /\ UNCHANGED <<zkCircuits, operators>>
       ELSE IF f = "missing"
       THEN /\ zkLast' = [ZkSettled("init", a, "rejected") EXCEPT
                             !.error = FileNotFound, !.failedAt = "exists"]
            /\ UNCHANGED <<zkCircuits, operators>>
       ELSE IF f = "unreadable"
       THEN /\ zkLast' = [ZkSettled("init", a, "rejected") EXCEPT
                             !.error = e, !.failedAt = "read"]
            /\ zkCircuits' = zkCircuits \cup {a}
            /\ UNCHANGED operators
       ELSE /\ zkCircuits' = zkCircuits \cup {a}
            /\ operators' = operators \cup {a}
            /\ zkLast' = ZkSettled("init", a, "resolved")
    /\ UNCHANGED <<zkBackends, zkCalls, adapterVars, operatorVars, benchVars>>

\* initializeCircuit(circuitName): no await, one step.  The parsed circuit
\* is stored before the operator is made; making an operator constructs
\* nothing and does not throw (see makeBarretenbergZKOperator).
zkInitializeCircuitBody(a, f, e) ==
    /\ IF fileNameMap(a) = ""
       THEN /\ zkLast' = [ZkSettled("init", a, "rejected") EXCEPT
                             !.error = UnknownAlgorithm, !.failedAt = "name"]
            /\ UNCHANGED <<zkCircuits, operators>>
       ELSE IF f = "missing"
       THEN /\ zkLast' = [ZkSettled("init", a, "rejected") EXCEPT
                             !.error = FileNotFound, !.failedAt = "exists"]
            /\ UNCHANGED <<zkCircuits, operators>>
       ELSE IF f = "unreadable"
       THEN /\ zkLast' = [ZkSettled("init", a, "rejected") EXCEPT
                             !.error = e, !.failedAt = "read"]
            /\ UNCHANGED <<zkCircuits, operators>>
       ELSE /\ zkCircuits' = zkCircuits \cup {a}
            /\ operators' = operators \cup {a}
            /\ zkLast' = ZkSettled("init", a, "resolved")
    /\ UNCHANGED <<zkBackends, zkCalls>>

\* initializeCircuit of the operator-based adapter
zkInitializeCircuit(a, f, e) ==
    zkInitializeCircuitBody(a, f, e) /\ UNCHANGED <<adapterVars, operatorVars, benchVars>>

\* cleanup(circuitName): no await, one step; the three deletes
zkCleanupBody(a) ==
    /\ operators' = operators \ {a}
    /\ zkCircuits' = zkCircuits \ {a}
    /\ zkBackends' = zkBackends \ {a}
    /\ zkLast' = ZkSettled("cleanup", a, "resolved")
    /\ UNCHANGED zkCalls

\* cleanup of the operator-based adapter
zkCleanup(a) ==
    zkCleanupBody(a) /\ UNCHANGED <<adapterVars, operatorVars, benchVars>>

ZkInFlight == BagToSet(zkCalls)

\* ----------------------------------------------- inputs of generateProof
\* A JavaScript number n >= 0 is written [neg |-> FALSE, hi, lo] with
\* n = hi * 2^16 + lo, and -n is written with neg |-> TRUE, so that numbers
\* beyond 32 bits can be told apart.
Num(h, l) == [neg |-> FALSE, hi |-> h, lo |-> l]
IsUint32(c) == ~c.neg /\ c.hi < 65536

\* Counters a caller can mean: 1, 2^31, 2^32 - 1 and 2^32 + 1
Counters == {Num(0, 1), Num(32768, 0), Num(65535, 65535), Num(65536, 1)}

\* Byte arrays: 12-byte nonces, keys of 16, 32 and 15 bytes, a ciphertext
Nonces == {[i \in 1..12 |-> i], [i \in 1..12 |-> 255]}
Keys == {[i \in 1..16 |-> 7], [i \in 1..32 |-> 7], [i \in 1..15 |-> 7]}
Ciphertext == <<1, 2, 3, 4>>

\* fullCounter of the callers: the nonce in the first 12 bytes, then
\* (counter >>> 24) & 0xFF, (counter >>> 16) & 0xFF, (counter >>> 8) & 0xFF
\* and counter & 0xFF, each of which first reduces the counter modulo 2^32
fullCounter(n, c) ==
    n \o << ((c.hi % 65536) \div 256) % 256, (c.hi % 65536) % 256,
            (c.lo \div 256) % 256, c.lo % 256 >>

\* array.slice(from, to) and array[i] with JavaScript's indices from 0; a
\* missing element is undefined, which the shift operators read as 0
Slice(arr, from, to) ==
    LET end == IF to < Len(arr) THEN to ELSE Len(arr)
    IN  IF end <= from THEN << >> ELSE [i \in 1..(end - from) |-> arr[from + i]]
ByteAt(arr, i) == IF i < Len(arr) THEN arr[i + 1] ELSE 0
Uint8Array(arr) == [i \in 1..Len(arr) |-> arr[i] % 256]

\* (b0 << 24) | (b1 << 16) | (b2 << 8) | b3: the bitwise operators of
\* JavaScript give a signed 32-bit integer, negative when bit 31 is set
Int32OfBytes(b0, b1, b2, b3) ==
    LET h == b0 * 256 + b1
        l == b2 * 256 + b3
    IN  IF h < 32768 THEN Num(h, l)
        ELSE IF l = 0 THEN [neg |-> TRUE, hi |-> 65536 - h, lo |-> 0]
        ELSE [neg |-> TRUE, hi |-> 65535 - h, lo |-> 65536 - l]

\* inputs of generateProof.  inputs.counter is the 16-byte array of the AES
\* algorithms (field counter) or the number of chacha20 (field count).
\* Malformed inputs: a block of 15 and one of 17 bytes, a nonce of 11 bytes.
ZkBlocks ==
    {fullCounter(n, c) : n \in Nonces, c \in Counters}
        \cup {Slice(fullCounter([i \in 1..12 |-> i], Num(0, 1)), 0, 15),
              fullCounter([i \in 1..12 |-> i], Num(0, 1)) \o <<9>>}
\* Key length of an algorithm in bytes; callers pass a key of that length or
\* the 15-byte one.
KeyBytes(a) == IF a = "aes-128-ctr" THEN 16 ELSE 32
ZkInputs(a) ==
    IF a = "chacha20"
    THEN [key : {k \in Keys : Len(k) \in {KeyBytes(a), 15}},
          counter : {<< >>}, count : Counters,
          nonce : {[i \in 1..12 |-> i], [i \in 1..11 |-> i]},
          expected_ciphertext : {Ciphertext}]
    ELSE [key : {k \in Keys : Len(k) \in {KeyBytes(a), 15}},
          counter : ZkBlocks, count : {Num(0, 0)},
          nonce : {<< >>}, expected_ciphertext : {Ciphertext}]

\* The nonce and the counterValue that generateProof computes
zkNonce(a, inputs) ==
    IF a = "chacha20" THEN Uint8Array(inputs.nonce)
    ELSE Uint8Array(Slice(inputs.counter, 0, 12))
zkCounterValue(a, inputs) ==
    IF a = "chacha20" THEN inputs.count
    ELSE Int32OfBytes(ByteAt(inputs.counter, 12), ByteAt(inputs.counter, 13),
                      ByteAt(inputs.counter, 14), ByteAt(inputs.counter, 15))

\* The argument of pkgGenerateProof (without the operator)
PackageInput(a, inputs) ==
    [algorithm |-> a,
     privateInput |-> [key |-> Uint8Array(inputs.key)],
     publicInput |-> [ciphertext |-> Uint8Array(inputs.expected_ciphertext),
                      iv |-> zkNonce(a, inputs), offsetBytes |-> 0]]

\* The generateProof calls in flight
ZkProofsInFlight ==
    BagCardinality([k \in {x \in ZkInFlight : x.op = "gen"} |-> zkCalls[k]])

\* generateProof up to `await pkgGenerateProof(...)`
zkGenerateProofStartBody(a, inputs) ==
    /\ IF a \notin operators
       THEN /\ zkLast' = [ZkSettled("gen", a, "rejected") EXCEPT
                             !.error = NotInitialized, !.failedAt = "check"]
            /\ UNCHANGED zkCalls
       ELSE /\ BagCardinality(zkCalls) < MaxCalls
            /\ ZkProofsInFlight < MaxZkProofs
            /\ zkCalls' = zkCalls (+) SetToBag({[ZkNewCall("gen", a) EXCEPT
                             !.inputs = inputs,
                             !.nonce = zkNonce(a, inputs),
                             !.counterValue = zkCounterValue(a, inputs),
                             !.pkg = PackageInput(a, inputs)]})
            /\ UNCHANGED zkLast
    /\ UNCHANGED <<zkCircuits, zkBackends, operators>>

\* generateProof of the operator-based adapter up to its first await
zkGenerateProofStart(a, inputs) ==
    zkGenerateProofStartBody(a, inputs) /\ UNCHANGED <<adapterVars, operatorVars, benchVars>>

\* generateProof from the settling of pkgGenerateProof to its return
zkGenerateProofDone(k, o, e) ==
    /\ k \in ZkInFlight /\ k.op = "gen"
    /\ zkCalls' = zkCalls (-) SetToBag({k})
    /\ zkLast' = IF o = "throws"
                 THEN [ZkSettled("gen", k.alg, "rejected") EXCEPT
                          !.error = e, !.failedAt = "package"]
                 ELSE ZkSettled("gen", k.alg, "resolved")
    /\ UNCHANGED <<zkCircuits, zkBackends, operators, adapterVars, operatorVars, benchVars>>

\* cleanupAll up to its first await: the names are listed once and the
\* first one is cleaned up (in any order, as in cleanupAllStart)
zkCleanupAllStartBody ==
    /\ IF operators = {}
       THEN /\ zkLast' = ZkSettled("cleanupAll", "", "resolved")
            /\ UNCHANGED <<zkCircuits, zkBackends, operators, zkCalls>>
       ELSE /\ BagCardinality(zkCalls) < MaxCalls
            /\ \E n \in operators :
                  /\ operators' = operators \ {n}
                  /\ zkCircuits' = zkCircuits \ {n}
                  /\ zkBackends' = zkBackends \ {n}
                  /\ zkCalls' = zkCalls (+) SetToBag({[ZkNewCall("cleanupAll", "")
                                       EXCEPT !.names = operators \ {n}]})
            /\ UNCHANGED zkLast

\* cleanupAll of the operator-based adapter up to its first await
zkCleanupAllStart ==
    zkCleanupAllStartBody /\ UNCHANGED <<adapterVars, operatorVars, benchVars>>

\* cleanupAll from the settling of the cleanup it awaited
zkCleanupAllNext(k) ==
    /\ k \in ZkInFlight /\ k.op = "cleanupAll"
    /\ IF k.names = {}
       THEN /\ zkCalls' = zkCalls (-) SetToBag({k})
            /\ zkLast' = ZkSettled("cleanupAll", "", "resolved")
            /\ UNCHANGED <<zkCircuits, zkBackends, operators>>
       ELSE /\ \E n \in k.names :
                  /\ operators' = operators \ {n}
                  /\ zkCircuits' = zkCircuits \ {n}
                  /\ zkBackends' = zkBackends \ {n}
                  /\ zkCalls' = (zkCalls (-) SetToBag({k}))
                                   (+) SetToBag({[k EXCEPT !.names = k.names \ {n}]})
            /\ UNCHANGED zkLast
    /\ UNCHANGED <<adapterVars, operatorVars, benchVars>>

NextZk ==
    \/ \E a \in ZkNames, f \in FileOutcomes, e \in LibErrors : zkInitializeCircuit(a, f, e)
    \/ \E a \in ZkNames : zkCleanup(a)
    \/ zkCleanupAllStart
    \/ \E k \in ZkInFlight : zkCleanupAllNext(k)
    \/ \E a \in ZkNames : \E inputs \in ZkInputs(a) : zkGenerateProofStart(a, inputs)
    \/ \E k \in ZkInFlight, o \in Outcomes, e \in LibErrors : zkGenerateProofDone(k, o, e)

SpecZk == Init /\ [][NextZk]_vars

TypeOKZk ==
    /\ zkCircuits \subseteq Known
    /\ zkBackends \subseteq Known
    /\ operators \subseteq Known
    /\ BagCardinality(zkCalls) <= MaxCalls
    /\ zkLast.status \in {"none", "resolved", "rejected"}


\* ------------------------------------------------ the two adapters together
\* One caller drives both adapters with the same calls over the names both
\* know: it makes a call on both at once, and makes the next one when both
\* have settled.  The compiled circuit is there and the engine constructors
\* do not throw.  A generateProof is made when the operator-based adapter
\* does not list the name.
KnownAlgs == Algs \cap Known
BothIdle == calls = EmptyBag /\ zkCalls = EmptyBag

bothInitializeCircuit(a, e) ==
    /\ BothIdle
    /\ initializeCircuitBody(a, "ok", e)
    /\ zkInitializeCircuitBody(a, "ok", e)
    /\ UNCHANGED <<operatorVars, benchVars>>

bothGenerateProof(a, r, inputs) ==
    /\ BothIdle /\ a \notin operators
    /\ generateProofStartBody(a, r)
    /\ zkGenerateProofStartBody(a, inputs)
    /\ UNCHANGED <<operatorVars, benchVars>>

bothCleanup(a) ==
    /\ BothIdle
    /\ cleanupStartBody(a)
    /\ zkCleanupBody(a)
    /\ UNCHANGED <<operatorVars, benchVars>>

bothCleanupAll ==
    /\ BothIdle
    /\ cleanupAllStartBody
    /\ zkCleanupAllStartBody
    /\ UNCHANGED <<operatorVars, benchVars>>

NextSideBySide ==
    \/ \E a \in KnownAlgs, e \in LibErrors : bothInitializeCircuit(a, e)
    \/ \E a \in KnownAlgs, r \in ProofRequests :
          \E inputs \in ZkInputs(a) : bothGenerateProof(a, r, inputs)
    \/ \E a \in KnownAlgs : bothCleanup(a)
    \/ bothCleanupAll
    \/ \E k \in InFlight, e \in LibErrors : generateProofExecuted(k, e)
    \/ \E k \in InFlight, o \in Outcomes, e \in LibErrors : generateProofProved(k, o, e)
    \/ \E k \in InFlight, o \in Outcomes : cleanupDestroyed(k, o)
    \/ \E k \in InFlight, o \in Outcomes : cleanupAllDestroyed(k, o)
    \/ \E k \in InFlight : cleanupAllNext(k)
    \/ \E k \in ZkInFlight : zkCleanupAllNext(k)

SpecSideBySide == Init /\ [][NextSideBySide]_vars


\* --------------------------------------------------- the benchmark harness
\* PerformanceMetrics and the loop of NoirCircuitBenchmark.  A duration is a
\* positive number of milliseconds; null and undefined are no numbers and are
\* written NoDuration and Undefined.
NoDuration == -1
Undefined == -2
Durations == {1, 2}
BenchAlgorithms == {"aes-128-ctr", "chacha20"}

\* One iteration of the loop of runAlgorithmBenchmark: runSingleTest returns
\* the duration or throws; the entry of the run is recorded, then the memory
\* usage.
runAlgorithmBenchmark(algorithm, ok, duration) ==
    /\ Len(metrics.proofGeneration) < MaxIterations
    /\ metrics' =
          [proofGeneration |-> Append(metrics.proofGeneration,
               IF ok
               THEN [algorithm |-> algorithm, duration |-> duration, success |-> TRUE]
               ELSE [algorithm |-> algorithm, duration |-> NoDuration, success |-> FALSE]),
           errors |-> IF ok THEN metrics.errors
                      ELSE Append(metrics.errors, [algorithm |-> algorithm]),
           memoryUsage |-> Append(metrics.memoryUsage, [algorithm |-> algorithm])]
    /\ UNCHANGED <<report, adapterVars, operatorVars, zkVars>>

\* item.duration: undefined for an entry that has no such property
DurationOf(item) == IF "duration" \in DOMAIN item THEN item.duration ELSE Undefined

\* What the comparator (a, b) => a - b makes of its arguments: null is 0
ToNumber(d) == IF d = NoDuration THEN 0 ELSE d

NoStatistics == [found |-> FALSE, count |-> 0, min |-> 0, max |-> 0,
                 median |-> 0, p95 |-> 0, p99 |-> 0, sum |-> 0]

RECURSIVE SumOf(_)
SumOf(ds) == IF ds = << >> THEN 0 ELSE ToNumber(Head(ds)) + SumOf(Tail(ds))

\* calculateStatistics(metricType, algorithm): null (found = FALSE) or the
\* statistics; mean is sum / count
calculateStatistics(metricType, algorithm) ==
    LET data == SelectSeq(metrics[metricType], LAMBDA item : item.algorithm = algorithm)
        all == [i \in 1..Len(data) |-> DurationOf(data[i])]
        kept == SelectSeq(all, LAMBDA d : d # Undefined)
        durations == SortSeq(kept, LAMBDA a, b : ToNumber(a) < ToNumber(b))
        n == Len(durations)
    IN  IF Len(data) = 0 \/ n = 0 THEN NoStatistics
        ELSE [found |-> TRUE, count |-> n,
              min |-> durations[1], max |-> durations[n],
              median |-> durations[(n \div 2) + 1],
              p95 |-> durations[((n * 95) \div 100) + 1],
              p99 |-> durations[((n * 99) \div 100) + 1],
              sum |-> SumOf(durations)]

\* generateReport: stats.mean, median, p95, min and max are formatted with
\* toFixed, which throws a TypeError on null
generateReport ==
    /\ report' =
          IF \E algorithm \in BenchAlgorithms :
                LET stats == calculateStatistics("proofGeneration", algorithm)
                IN  /\ stats.found
                    /\ NoDuration \in {stats.median, stats.p95, stats.min, stats.max}
          THEN "TypeError"
          ELSE "generated"
    /\ UNCHANGED <<metrics, adapterVars, operatorVars, zkVars>>

NextBenchmark ==
    \/ \E algorithm \in BenchAlgorithms, d \in Durations :
          runAlgorithmBenchmark(algorithm, TRUE, d)
    \/ \E algorithm \in BenchAlgorithms :
          runAlgorithmBenchmark(algorithm, FALSE, NoDuration)
    \/ generateReport

SpecBenchmark == Init /\ [][NextBenchmark]_vars


\* ===================================================================== claims

\* C1: initializeCircuit(a) on a circuit that is already bound constructs no
\* new engine.  (It does: the pair is constructed on every call.)
C1_ReinitConstructsNothing ==
    (last.op = "init" /\ last.wasBound) => last.built = 0

\* C2: however the calls of one operator interleave, one execution engine
\* and one proving engine are constructed for its algorithm.  (Two calls
\* that both pass the check of initializeBackend before either has stored
\* its engines construct a pair each.)
C2_OneEngineSet == opEngines <= 1

\* C3: generateProof(a, inputs) that starts when a was never initialized, or
\* when the last lifecycle operation completed on a was a cleanup, rejects
\* with 'not initialized' and invokes no engine.  (After a cleanup whose
\* destroy() threw, the binding is still there and the engine is invoked.)
C3_RejectsUninitialized ==
    [][\A a \in Algs, r \in ProofRequests :
          (cleanedUp[a] /\ generateProofStart(a, r)) =>
              /\ last'.op = "gen" /\ last'.alg = a
              /\ last'.status = "rejected" /\ last'.error = NotInitialized
              /\ ~last'.executed /\ ~last'.proved
              /\ calls' = calls]_vars

C6_RoundTrip ==
    [][\A k \in InFlight :
          ( /\ last.op = "gen" /\ last.status = "resolved"
            /\ Consistent(last.req)
            /\ k.op = "verify" /\ k.alg = last.alg
            /\ k.proof = last.artifact.proof
            /\ k.signals = last.artifact.publicSignals
            /\ verifyProofVerified(k, "ok") )
          => last'.bool = TRUE]_vars

\* C7: within one generateProof, backend.generateProof is invoked only after
\* noir.execute has resolved; when the execution fails, the call rejects,
\* returns no proof and never reaches the proving engine.
C7_ProveOnlyAfterExecute ==
    /\ \A k \in InFlight :
          (k.op = "gen" /\ k.pc = "prove") => (k.execOk /\ Consistent(k.req))
    /\ (last.op = "gen" /\ last.proved) => (last.execOk /\ Consistent(last.req))
    /\ (last.op = "gen" /\ last.executed /\ ~Consistent(last.req)) =>
          /\ last.status = "rejected" /\ last.failedAt = "execute"
          /\ last.artifact = NoArtifact
          /\ ~last.proved

\* C7 witness: a generateProof that rejected because the execution failed.
C7_Witness ==
    /\ last.op = "gen" /\ last.status = "rejected"
    /\ last.failedAt = "execute" /\ last.executed

\* C8: the value generateProof rejects with when the execution fails differs
\* from the value it rejects with when the proving engine fails.  (Both are
\* whatever the library threw, rethrown unchanged.)
C8_DistinctKinds ==
    [][( /\ last.op = "gen" /\ last.failedAt = "execute"
         /\ last'.op = "gen" /\ last'.failedAt = "prove" )
       => last'.error # last.error]_vars

\* C9: when cleanup(a) completes, on a bound circuit or on an absent one,
\* it has resolved and a is not in listCircuits().  (Not when destroy()
\* threw: see C10.)
C9_CleanupIdempotent ==
    [][\A a \in Algs :
          ( \/ (backends[a] = 0 /\ cleanupStart(a))
            \/ \E k \in InFlight, o \in Outcomes : k.alg = a /\ cleanupDestroyed(k, o) )
          => (last'.op = "cleanup" /\ last'.status = "resolved" /\ circuits'[a] = 0)]_vars

\* C10: when backend.destroy() throws, cleanup still resolves and the
\* binding is removed from both maps.  (The deletes are skipped.)
C10_BestEffort ==
    [][\A k \in InFlight :
          cleanupDestroyed(k, "throws")
          => /\ last'.op = "cleanup" /\ last'.status = "resolved"
             /\ circuits'[k.alg] = 0
             /\ backends'[k.alg] = 0]_vars

\* C11: when cleanupAll() completes, both maps are empty and listCircuits()
\* lists nothing.  (A circuit whose destroy() threw keeps its binding, and
\* so does one that was initialized after the names were listed.)
C11_CleanupAllEmpties ==
    [][( \/ (listCircuits = {} /\ cleanupAllStart)
         \/ \E k \in InFlight : k.names = {} /\ cleanupAllNext(k) )
       => /\ last'.op = "cleanupAll" /\ last'.status = "resolved"
          /\ \A a \in Algs : circuits'[a] = 0 /\ backends'[a] = 0]_vars

\* The engine a proof call in flight is suspended on.
InUse(k) == IF k.pc = "execute" THEN k.noir ELSE k.backend

\* C12: destroy() is never invoked on an engine while a generateProof or a
\* verifyProof call is suspended on it.  (cleanup invokes destroy() at once,
\* whatever is in flight.)
C12_NoReleaseUnderCall ==
    [][\A e \in destroyed' \ destroyed :
          ~ \E k \in InFlight : k.op \in {"gen", "verify"} /\ InUse(k) = e]_vars

\* The binding of a is being destroyed: a cleanup of a has invoked destroy()
\* on the bound backend and has not removed the binding yet.
Destroying(a) ==
    \E c \in InFlight : /\ c.op \in {"cleanup", "cleanupAll"} /\ c.pc = "destroy"
                        /\ c.alg = a /\ c.backend = backends[a]

\* C13: a generateProof that starts while the binding is being destroyed
\* rejects with 'not initialized', a verifyProof resolves to false, and
\* neither is dispatched to the engine.  (Both find the binding still in the
\* maps and call the engine whose destroy() is in progress.)
C13_RejectsWhileDestroying ==
    [][\A a \in Algs : Destroying(a) =>
          /\ \A r \in ProofRequests : generateProofStart(a, r) =>
                /\ last'.op = "gen" /\ last'.status = "rejected"
                /\ last'.error = NotInitialized /\ calls' = calls
          /\ \A p \in Proofs, s \in Signals : verifyProofStart(a, p, s) =>
                /\ last'.op = "verify" /\ last'.status = "resolved"
                /\ ~last'.bool /\ calls' = calls]_vars

\* C15: a cleanup(a) removes no binding other than the one whose destroy()
\* it awaited: no initializeCircuit(a) takes effect between its start and
\* its end.  (initializeCircuit runs while destroy() is pending, and the
\* deletes then remove the fresh binding.)
C15_LifecycleSerialized ==
    [][\A k \in InFlight :
          cleanupDestroyed(k, "ok") => backends[k.alg] \in {0, k.backend}]_vars

\* C14: the engine an operator call invokes (noir.execute,
\* backend.generateProof, backend.verifyProof) has been constructed before
\* the invocation, however the calls and their initializeBackend interleave.
C14_EnginesConstructed ==
    \A k \in OpInFlight :
        k.pc \in {"execute", "prove", "verify"} =>
            (k.noir \in 1..opEngines /\ k.backend \in 1..opEngines)

\* C14 witness: a call has invoked its engine after two calls have raced
\* through initializeBackend and constructed a pair each.
C14_Witness ==
    /\ opEngines = 2
    /\ \E k \in OpInFlight : k.pc \in {"execute", "prove", "verify"} /\ k.built = 1

\* C16: the engines of an operator exist when the operator has been made and
\* stored by initializeCircuit: no generateWitness, ultrahonkProve or
\* ultrahonkVerify call constructs an engine.  (The operator is made with
\* noir and backend unset, and the first call constructs them.)
C16_ConstructedAtInit ==
    [][opEngines' = opEngines]_vars

\* C17: listCircuits().length = circuits.size and circuits.size =
\* backends.size.  (The operator-based initializeCircuit never stores a
\* backend.)
C17_SizesAgree ==
    /\ Cardinality(zkListCircuits) = Cardinality(zkCircuits)
    /\ Cardinality(zkCircuits) = Cardinality(zkBackends)

C19_UnknownNameRejected ==
    [][\A a \in Algs \ Known, o \in Outcomes, e \in LibErrors :
          initializeCircuit(a, o, e) =>
              /\ last'.status = "rejected" /\ last'.built = 0
              /\ circuits' = circuits /\ backends' = backends]_vars

\* C20: getCircuitInfo(a) is a record with initialized: true exactly when a
\* is in listCircuits() and null exactly when it is not; an adapter that has
\* constructed nothing lists nothing.
C20_InfoMatchesList ==
    /\ \A a \in Algs :
          /\ getCircuitInfo(a).found <=> a \in listCircuits
          /\ getCircuitInfo(a).found =>
                (getCircuitInfo(a).initialized /\ getCircuitInfo(a).name = a)
    /\ nextEngine = 0 => listCircuits = {}

\* C20 witness: one circuit is listed and reported while its cleanup waits
\* for destroy(), and the other is neither listed nor reported.
C20_Witness ==
    \E a \in Algs, b \in Algs :
        /\ Destroying(a) /\ a \in listCircuits /\ getCircuitInfo(a).initialized
        /\ b \notin listCircuits /\ ~getCircuitInfo(b).found

\* C21: an initializeCircuit(a) that starts when the last lifecycle call
\* completed on a was a cleanup (or none), and whose constructors do not
\* throw, resolves and binds a pair of engines constructed by this call, on
\* which destroy() has not been invoked; and a generateProof on a bound
\* circuit is dispatched to the bound execution engine.
C21_ReinitAfterCleanup ==
    [][/\ \A a \in Algs, e \in LibErrors :
            (cleanedUp[a] /\ initializeCircuit(a, "ok", e)) =>
                /\ last'.status = "resolved" /\ last'.built = 1
                /\ a \in listCircuits' /\ getCircuitInfo(a)'.initialized
                /\ circuits'[a] = backends'[a]
                /\ circuits'[a] > nextEngine
                /\ circuits'[a] \notin destroyed'
       /\ \A a \in Algs, r \in ProofRequests :
            (circuits[a] # 0 /\ generateProofStart(a, r)) =>
                \E k \in BagToSet(calls') :
                    /\ k.op = "gen" /\ k.alg = a /\ k.req = r
                    /\ k.pc = "execute" /\ k.noir = circuits[a]]_vars

\* C21 witness: a second initializeCircuit has bound a fresh pair after the
\* cleanup of the first one invoked destroy() on it.
C21_Witness ==
    /\ last.op = "init" /\ last.status = "resolved" /\ last.wasClean
    /\ nextEngine = 2 /\ 1 \in destroyed
    /\ circuits[last.alg] = 2 /\ backends[last.alg] = 2

\* C22: the fetcher is not invoked again once a fetch has succeeded: no
\* fetch completes when the circuit is already loaded.  (Two calls that both
\* find the circuit unset each invoke the fetcher.)
C22_FetchedOnce ==
    [][\A k \in OpInFlight, e \in LibErrors :
          loadCircuit(k, "ok", e) => ~circuit]_vars

\* C23: when the fetch or the parse fails, the operation that waited for it
\* rejects with that error, the failing load stores no circuit and no
\* engine, and an operation that starts with nothing loaded invokes the
\* fetcher again.
C23_FailedLoadNotCached ==
    [][/\ \A k \in OpInFlight, e \in LibErrors :
            loadCircuit(k, "throws", e) =>
                /\ opLast'.op = k.op /\ opLast'.status = "rejected"
                /\ opLast'.error = e
                /\ circuit' = circuit /\ noir' = noir /\ backend' = backend
                /\ opEngines' = opEngines
       /\ \A r \in Requests :
            (~circuit /\ noir = 0 /\ generateWitness(r)) =>
                /\ fetches' = fetches + 1
                /\ \E k \in BagToSet(opCalls') : k.pc = "fetch"]_vars

\* C23 witness: after a failed fetch, a second fetch has loaded the circuit.
C23_Witness ==
    /\ opLast.status = "rejected" /\ opLast.failedAt = "fetch"
    /\ fetches = 2 /\ circuit
    /\ \E k \in OpInFlight : k.fetched = 1 /\ k.pc = "loaded"

\* C28: the artifact of a successful generateProof(a, ...) names a and holds
\* the proof bytes and the public inputs the proving engine produced for the
\* witness of the call.  (publicSignals is the empty list.)
C28_ArtifactFromEngine ==
    [][\A k \in InFlight, e \in LibErrors :
          generateProofProved(k, "ok", e) =>
              /\ last'.artifact.circuitName = k.alg
              /\ last'.artifact.proof = ProofData(k.witness).proof
              /\ last'.artifact.publicSignals = ProofData(k.witness).publicInputs]_vars

\* C29: an error thrown by an engine constructor, by noir.execute or by
\* backend.generateProof rejects initializeCircuit / generateProof with that
\* same error, and no artifact is returned.
C29_ErrorsPropagate ==
    [][/\ \A a \in Algs, e \in LibErrors :
            initializeCircuit(a, "throws", e) =>
                /\ last'.status = "rejected" /\ last'.error = e
                /\ last'.artifact = NoArtifact /\ ~last'.bool
       /\ \A k \in InFlight, e \in LibErrors :
            /\ (~Consistent(k.req) /\ generateProofExecuted(k, e)) =>
                  /\ last'.status = "rejected" /\ last'.error = e
                  /\ last'.artifact = NoArtifact
            /\ generateProofProved(k, "throws", e) =>
                  /\ last'.status = "rejected" /\ last'.error = e
                  /\ last'.artifact = NoArtifact]_vars

\* C29 witness: a generateProof has rejected with the error of the proving
\* engine.
C29_Witness ==
    /\ last.op = "gen" /\ last.status = "rejected" /\ last.failedAt = "prove"
    /\ last.error \in LibErrors /\ last.artifact = NoArtifact

C24_CounterRoundTrip ==
    \A k \in ZkInFlight :
        (k.op = "gen" /\ k.alg # "chacha20") =>
            \A n \in Nonces, c \in Counters :
                (IsUint32(c) /\ k.inputs.counter = fullCounter(n, c)) =>
                    (k.nonce = n /\ k.counterValue = c)

\* C25: generateProof with a numeric counter above 2^32 - 1 rejects and
\* hands nothing to the package.  (The counter of chacha20 is not examined.)
C25_CounterRangeChecked ==
    [][\A inputs \in ZkInputs("chacha20") :
          ( /\ "chacha20" \in operators /\ ~IsUint32(inputs.count)
            /\ zkGenerateProofStart("chacha20", inputs) )
          => (zkLast'.op = "gen" /\ zkLast'.status = "rejected" /\ zkCalls' = zkCalls)]_vars

\* A byte array of the inputs has not the length the algorithm expects.
WrongLength(a, inputs) ==
    \/ Len(inputs.key) # KeyBytes(a)
    \/ a = "chacha20" /\ Len(inputs.nonce) # 12
    \/ a # "chacha20" /\ Len(inputs.counter) # 16

\* C26: generateProof with a key, a nonce or a counter block of the wrong
\* length rejects and hands nothing to the package.  (No length is examined;
\* slice(0, 12) takes what there is.)
C26_LengthsChecked ==
    [][\A a \in Known : \A inputs \in ZkInputs(a) :
          (a \in operators /\ WrongLength(a, inputs) /\ zkGenerateProofStart(a, inputs))
          => (zkLast'.op = "gen" /\ zkLast'.status = "rejected" /\ zkCalls' = zkCalls)]_vars

\* C27: what generateProof of an AES algorithm hands to the package differs
\* from what it would hand over for the same inputs with other last four
\* bytes in the counter block.  (Only the first 12 bytes are handed over.)
C27_CounterHandedOver ==
    \A k \in ZkInFlight :
        (k.op = "gen" /\ k.alg # "chacha20") =>
            \A other \in ZkInputs(k.alg) :
                ( /\ other.key = k.inputs.key
                  /\ Len(other.counter) = 16 /\ Len(k.inputs.counter) = 16
                  /\ Slice(other.counter, 0, 12) = Slice(k.inputs.counter, 0, 12)
                  /\ other.counter # k.inputs.counter )
                => PackageInput(k.alg, other) # k.pkg

\* C31: generateProof calls in flight on the same circuit are independent:
\* a step of one call leaves every other call in flight as it was, settles
\* no call but its own, and the proof it returns is the one the engine
\* produces from the witness of the call's own inputs, whether the other
\* calls succeed or fail.
C31_ConcurrentIndependent ==
    [][\A k \in InFlight, o \in Outcomes, e \in LibErrors :
          (generateProofExecuted(k, e) \/ generateProofProved(k, o, e)) =>
              /\ Take(k) \sqsubseteq calls'
              /\ \A k2 \in BagToSet(calls') :
                    k2 \in InFlight \/ (k2.alg = k.alg /\ k2.req = k.req)
              /\ last' # last =>
                    /\ last'.op = "gen" /\ last'.alg = k.alg /\ last'.req = k.req
                    /\ last'.status = "resolved" =>
                          /\ Consistent(k.req)
                          /\ last'.artifact.proof = ProofData(Witness(k.req)).proof
                          /\ last'.artifact.circuitName = k.alg]_vars

\* C31 witness: a generateProof has returned its proof while another one on
\* the same circuit, with other inputs, waits for the proving engine.
C31_Witness ==
    /\ last.op = "gen" /\ last.status = "resolved"
    /\ \E k \in InFlight :
          /\ k.op = "gen" /\ k.alg = last.alg /\ k.pc = "prove"
          /\ k.req # last.req /\ k.witness # last.artifact.proof

\* What a settled generateProof has settled with: an artifact of the circuit,
\* or an error (of a library, 'not initialized', or the TypeError of a
\* missing backend).
GenSettledWell(c) ==
    \/ /\ c.status = "resolved"
       /\ c.artifact.circuitType = "noir" /\ c.artifact.circuitName = c.alg
       /\ c.error = ""
    \/ /\ c.status = "rejected"
       /\ c.error \in LibErrors \cup {NotInitialized, TypeError}
       /\ c.artifact = NoArtifact

C33_NullRejected ==
    [][/\ \A a \in Algs, p \in Proofs \cup {NullProof}, s \in Signals \cup {NullInputs} :
            ( /\ p = NullProof \/ s = NullInputs
              /\ backends[a] = 0
              /\ verifyProofStart(a, p, s) )
            => (last'.op = "verify" /\ last'.status = "rejected")
       /\ \A k \in InFlight, o \in Outcomes :
            ( /\ k.proof = NullProof \/ k.signals = NullInputs
              /\ verifyProofVerified(k, o) )
            => (last'.op = "verify" /\ last'.status = "rejected")]_vars

\* C34: ultrahonkVerify resolves to false when the verification of the
\* engine throws or does not accept the proof, and rejects, with the error
\* of the fetch, when the circuit cannot be fetched.
C34_VerifyFalseOrStructural ==
    [][\A k \in OpInFlight :
          k.op = "ultrahonkVerify" =>
              /\ \A o \in Outcomes :
                    proofVerified(k, o) =>
                        /\ opLast'.op = "ultrahonkVerify"
                        /\ opLast'.status = "resolved"
                        /\ (o = "throws" \/ ~Accepts(k.proof, k.signals))
                              => opLast'.bool = FALSE
              /\ \A e \in LibErrors :
                    loadCircuit(k, "throws", e) =>
                        /\ opLast'.op = "ultrahonkVerify"
                        /\ opLast'.status = "rejected"
                        /\ opLast'.error = e]_vars

\* C34 witness: an ultrahonkVerify has rejected on its fetch while another
\* one, whose fetch succeeded, waits for the verification of the engine.
C34_Witness ==
    /\ opLast.op = "ultrahonkVerify" /\ opLast.status = "rejected"
    /\ opLast.failedAt = "fetch"
    /\ \E k \in OpInFlight : k.op = "ultrahonkVerify" /\ k.pc = "verify"

\* C35: driven with the same calls, the two adapters list the same names,
\* answer getCircuitInfo alike, and settle each call alike, whenever both
\* have settled.  (cleanup of the adapter that destroys a backend keeps the
\* binding when destroy() throws; the operator-based one always deletes.)
C35_SameContract ==
    BothIdle =>
        /\ listCircuits = zkListCircuits
        /\ \A a \in KnownAlgs : getCircuitInfo(a).found = zkGetCircuitInfo(a).found
        /\ last.status = zkLast.status
        /\ (last.error = NotInitialized) = (zkLast.error = NotInitialized)

\* C36: every backend that has been constructed is bound to a circuit name
\* or has had destroy() invoked.  (initializeCircuit on a bound name stores
\* the new pair over the old one, which is never destroyed.)
C36_NoOrphan ==
    \A n \in 1..nextEngine :
        n \in destroyed \/ \E a \in Algs : backends[a] = n

\* C37: a generateProof whose execution has resolved goes on to the backend
\* that was constructed with the Noir instance it executed on; when that
\* pair is no longer the one bound to the name, the call rejects with 'not
\* initialized'.  (The backend is looked up after the execution: the call
\* proves with the backend of a later initializeCircuit, or fails with the
\* TypeError of calling generateProof on undefined.)
C37_SameBinding ==
    [][\A k \in InFlight, e \in LibErrors :
          (k.op = "gen" /\ Consistent(k.req) /\ generateProofExecuted(k, e)) =>
              IF backends[k.alg] = k.noir
              THEN \E k2 \in BagToSet(calls') :
                      /\ k2.op = "gen" /\ k2.pc = "prove"
                      /\ k2.noir = k.noir /\ k2.backend = k.noir
              ELSE /\ last'.op = "gen" /\ last'.status = "rejected"
                   /\ last'.error = NotInitialized
                   /\ calls' = Take(k)]_vars

\* The bindings of the names other than a are as they were.
OthersKept(a) ==
    \A b \in Algs \ {a} :
        /\ circuits'[b] = circuits[b] /\ backends'[b] = backends[b]
        /\ (b \in listCircuits') = (b \in listCircuits)

\* C38: no step of initializeCircuit(a) or cleanup(a), succeeding or
\* failing, changes the binding of another name; and cleanupAll calls the
\* cleanup of every name that was listed when it started, going on to the
\* next one also when a destroy() has thrown.
C38_OthersUntouched ==
    [][/\ \A a \in Algs, o \in Outcomes, e \in LibErrors :
            initializeCircuit(a, o, e) => OthersKept(a)
       /\ \A a \in Algs :
            cleanupStart(a) => (OthersKept(a) /\ destroyed' \subseteq destroyed \cup {backends[a]})
       /\ \A k \in InFlight, o \in Outcomes :
            /\ cleanupDestroyed(k, o) => OthersKept(k.alg)
            /\ cleanupAllDestroyed(k, o) =>
                  /\ OthersKept(k.alg)
                  /\ \E k2 \in BagToSet(calls') :
                        k2.op = "cleanupAll" /\ k2.pc = "next" /\ k2.names = k.names
            /\ (k.names # {} /\ cleanupAllNext(k)) =>
                  /\ last' = last
                  /\ \E n \in k.names : \E k2 \in BagToSet(calls') :
                        /\ k2.op = "cleanupAll" /\ k2.alg = n
                        /\ k2.names = k.names \ {n}
                        /\ OthersKept(n)
                        /\ backends[n] # 0 =>
                              (k2.pc = "destroy" /\ backends[n] \in destroyed')
       /\ (listCircuits # {} /\ cleanupAllStart) =>
            \E k2 \in BagToSet(calls') :
                /\ k2.op = "cleanupAll" /\ k2.alg \in listCircuits
                /\ k2.names = listCircuits \ {k2.alg}
                /\ OthersKept(k2.alg)]_vars

\* C38 witness: cleanupAll is destroying the backend of its second name
\* after the destroy() of the first one threw, which left that one bound.
C38_Witness ==
    \E k \in InFlight :
        /\ k.op = "cleanupAll" /\ k.pc = "destroy" /\ k.names = {}
        /\ \E b \in Algs \ {k.alg} :
              /\ backends[b] # 0 /\ backends[b] \in destroyed /\ cleanedUp[b]

\* The successful runs recorded for an algorithm.
Successes(algorithm) ==
    Len(SelectSeq(metrics.proofGeneration,
                  LAMBDA item : item.algorithm = algorithm /\ item.success))

\* C39: every iteration has recorded one proofGeneration entry, the
\* statistics of an algorithm count its successful runs only, their min, max
\* and median are never the null of a failed run, and generateReport does
\* not throw.  (The filter of calculateStatistics drops undefined, not null:
\* a failed run is counted, sorts first, and toFixed throws on it.)
C39_StatisticsOverSuccesses ==
    /\ Len(metrics.proofGeneration) = Len(metrics.memoryUsage)
    /\ \A algorithm \in BenchAlgorithms :
          LET stats == calculateStatistics("proofGeneration", algorithm)
          IN  stats.found =>
                 /\ stats.count = Successes(algorithm)
                 /\ NoDuration \notin {stats.min, stats.max, stats.median}
    /\ report # "TypeError"

====
